---- MODULE Spec2Model ----
(***************************************************************************)
(* A model of FlashcardGenerator (src/flashcard_generator.py): the chunker *)
(* chunk_content, the per-chunk model call generate_flashcards, the        *)
(* orchestrator process_content and the grouper group_by_topic.            *)
(*                                                                         *)
(* A Python str is a sequence of characters.  The characters are "a", "b"  *)
(* (non-whitespace), "SP" (a space) and "NL" (a newline, '\n').            *)
(* CHUNK_SIZE is a module-level constant of the program (3000); the        *)
(* chunker is modelled with the size as a parameter so that the loop can   *)
(* be explored at small sizes, and the token budget with the program's own *)
(* value.                                                                  *)
(***************************************************************************)
EXTENDS Integers, Sequences, FiniteSets, TLC

VARIABLES
    op,             \* which method is running: "chunk", "process", "group", "budget"
    pc,             \* position inside that method
    s,              \* the argument `content` as passed by the caller
    size,           \* the chunk size in force (CHUNK_SIZE)
    content,        \* chunk_content: the local `content` (what remains)
    chunks,         \* chunk_content / process_content: the list `chunks`
    subject,        \* generate_flashcards / process_content: `subject`
    i,              \* process_content: the loop index of enumerate(chunks)
    all_flashcards, \* process_content: the list `all_flashcards`
    progress_bar,   \* every value handed to st.progress, as <<num, den>>
    max_tokens,     \* the max_tokens of every request sent, in order
    log,            \* per processed chunk: what the service did and what was added
    flashcards,     \* group_by_topic: the argument `flashcards`
    gi,             \* group_by_topic: how many cards the for loop has consumed
    topics          \* group_by_topic: the dict `topics`, in insertion order

vars == <<op, pc, s, size, content, chunks, subject, i, all_flashcards,
          progress_bar, max_tokens, log, flashcards, gi, topics>>

-----------------------------------------------------------------------------
(* Bounds of the model. *)

MaxLen == 5
MaxChunkSize == 3
MaxProcLen == 3
MaxCards == 3

(* Program constants. *)

MAX_TOKENS == 4096
CHUNK_SIZE == 3000
SystemPromptFixedLen == 1202
UserPromptFixedLen == 91

-----------------------------------------------------------------------------
(* Strings. *)

Whitespace == {"SP", "NL"}
Alphabet == {"a", "b", "SP", "NL"}

StringsUpTo(alphabet, n) == UNION {[1..k -> alphabet] : k \in 0..n}

Min(a, b) == IF a <= b THEN a ELSE b

\* content[:k]
Prefix(str, k) == SubSeq(str, 1, Min(k, Len(str)))

\* content[k:]
Suffix(str, k) == SubSeq(str, Min(k, Len(str)) + 1, Len(str))

\* str.lstrip(): drops the leading whitespace.
lstrip_identity(str) == str

lstrip_one(str) == IF str = <<>> THEN str ELSE Tail(str)

RECURSIVE lstrip(_)
lstrip(str) ==
    IF str # <<>> /\ Head(str) \in Whitespace THEN lstrip(Tail(str)) ELSE str

\* str.rfind(ch, start, end): the highest 0-based index in str[start:end]
\* holding ch, or -1.
rfind(str, ch, start, end) ==
    LET hits == {k \in start..(Min(end, Len(str)) - 1) : str[k + 1] = ch}
    IN IF hits = {} THEN -1 ELSE CHOOSE k \in hits : \A j \in hits : j <= k

-----------------------------------------------------------------------------
(* chunk_content *)

\* Lines 46-48: where the loop body splits a content longer than the size.
split_at_past(str, n) ==
    LET found == rfind(str, "NL", 0, n)
    IN IF found = -1 THEN n + 1 ELSE found

split_at(str, n) ==
    LET found == rfind(str, "NL", 0, n)
    IN IF found = -1 THEN n ELSE found

\* The whole method as a function of its argument (used by process_content).
RECURSIVE chunk_content(_, _)
chunk_content(str, n) ==
    IF str = <<>> THEN <<>>
    ELSE IF Len(str) <= n THEN <<str>>
    ELSE <<Prefix(str, split_at(str, n))>>
             \o chunk_content(lstrip(Suffix(str, split_at(str, n))), n)

ChunkIdle ==
    /\ op = "chunk" /\ pc = "idle"
    /\ pc' = "loop"
    /\ content' = s
    /\ chunks' = <<>>
    /\ UNCHANGED <<op, s, size, subject, i, all_flashcards, progress_bar,
                   max_tokens, log, flashcards, gi, topics>>

\* One pass of `while content:` that ends the loop: the test fails, or the
\* body appends the rest and breaks.
ChunkLast ==
    /\ op = "chunk" /\ pc = "loop"
    /\ Len(content) <= size
    /\ chunks' = IF content = <<>> THEN chunks ELSE Append(chunks, content)
    /\ pc' = "done"
    /\ UNCHANGED <<op, s, size, content, subject, i, all_flashcards,
                   progress_bar, max_tokens, log, flashcards, gi, topics>>

\* One pass of the loop body that splits and goes round again.
ChunkSplit ==
    /\ op = "chunk" /\ pc = "loop"
    /\ Len(content) > size
    /\ chunks' = Append(chunks, Prefix(content, split_at(content, size)))
    /\ content' = lstrip(Suffix(content, split_at(content, size)))
    /\ UNCHANGED <<op, pc, s, size, subject, i, all_flashcards, progress_bar,
                   max_tokens, log, flashcards, gi, topics>>

ChunkNext == ChunkIdle \/ ChunkLast \/ ChunkSplit

ChunkInit ==
    /\ op = "chunk" /\ pc = "idle"
    /\ s \in StringsUpTo(Alphabet, MaxLen)
    /\ size \in 1..MaxChunkSize
    /\ content = <<>> /\ chunks = <<>>
    /\ subject = "General" /\ i = 0 /\ all_flashcards = <<>>
    /\ progress_bar = <<>> /\ max_tokens = <<>> /\ log = <<>>
    /\ flashcards = <<>> /\ gi = 0 /\ topics = <<>>

SpecChunk == ChunkInit /\ [][ChunkNext]_vars

SpecChunkFair == SpecChunk /\ WF_vars(ChunkNext)

-----------------------------------------------------------------------------
(* Properties of chunk_content. *)

RECURSIVE TotalLen(_)
TotalLen(seqs) == IF seqs = <<>> THEN 0 ELSE Len(Head(seqs)) + TotalLen(Tail(seqs))

AllWhitespace(str) == \A k \in 1..Len(str) : str[k] \in Whitespace

\* str is cs[1] \o w1 \o cs[2] \o w2 ... \o cs[n] with every w whitespace-only;
\* with `trailing`, a whitespace-only string may also follow cs[n].
RECURSIVE Rebuilds(_, _, _)
Rebuilds(str, cs, trailing) ==
    IF cs = <<>> THEN str = <<>>
    ELSE /\ Len(Head(cs)) <= Len(str)
         /\ Prefix(str, Len(Head(cs))) = Head(cs)
         /\ LET rest == Suffix(str, Len(Head(cs)))
            IN IF Len(cs) = 1
               THEN IF trailing THEN AllWhitespace(rest) ELSE rest = <<>>
               ELSE \E k \in 0..Len(rest) :
                        /\ AllWhitespace(Prefix(rest, k))
                        /\ Rebuilds(Suffix(rest, k), Tail(cs), trailing)

\* C3: every chunk except possibly the last is at most `size` long, and a
\* non-empty content no longer than `size` comes back as the single chunk
\* [content].
C3_ChunkBound ==
    op = "chunk" =>
        /\ \A k \in 1..(Len(chunks) - 1) : Len(chunks[k]) <= size
        /\ (pc = "done" /\ s # <<>> /\ Len(s) <= size) => chunks = <<s>>

C3_Witness ==
    /\ op = "chunk" /\ pc = "done"
    /\ Len(s) > size /\ Len(chunks) >= 3
    /\ \E k \in 1..(Len(chunks) - 1) : Len(chunks[k]) = size

\* C4 as claimed: the content is rebuilt from the chunks by inserting a
\* whitespace-only string between consecutive chunks (and nowhere else).
C4_RebuildBetween ==
    (op = "chunk" /\ pc = "done") => Rebuilds(s, chunks, FALSE)

\* C4 as amended: the content is rebuilt from the chunks by inserting a
\* whitespace-only string after each chunk, the last one included: whitespace
\* that follows the final split point is trimmed too, and nothing else is
\* lost, duplicated or reordered.
C4_RebuildTrimmed ==
    (op = "chunk" /\ pc = "done") => Rebuilds(s, chunks, TRUE)

C4_Witness ==
    /\ op = "chunk" /\ pc = "done"
    /\ Len(chunks) >= 2
    /\ TotalLen(chunks) < Len(s)
    /\ ~AllWhitespace(s)

\* C5: every chunk returned is a non-empty string, and the empty content
\* yields the empty sequence.
C5_ChunksNonEmpty ==
    op = "chunk" =>
        /\ \A k \in 1..Len(chunks) : chunks[k] # <<>>
        /\ (pc = "done" /\ s = <<>>) => chunks = <<>>

\* C10: a pass of the loop that goes round again leaves strictly less
\* content than it found, and the loop exits.
C10_Terminates ==
    /\ [][(op = "chunk" /\ pc = "loop" /\ pc' = "loop")
             => Len(content') < Len(content)]_vars
    /\ <>(pc = "done")

C10_Witness ==
    /\ op = "chunk" /\ pc = "loop"
    /\ chunks # <<>> /\ chunks[Len(chunks)] = <<>>
    /\ Len(content) > size
    /\ TotalLen(chunks) + Len(content) < Len(s)

-----------------------------------------------------------------------------
(* generate_flashcards *)

(* JSON values as Python holds them after json.loads.  A value is          *)
(* [t |-> its type, v |-> what iterating over it yields]: a list yields    *)
(* its elements, a str its characters, a dict its keys; a number, null or  *)
(* a boolean cannot be iterated.  An element is [t |-> "dict" or "str",    *)
(* v |-> <<its text>>].                                                     *)

Card(q) == [t |-> "dict", v |-> <<q>>]
Str(c) == [t |-> "str", v |-> <<c>>]

Cards == {Card("q1"), Card("q2")}

EmptyList == [t |-> "list", v |-> <<>>]

\* The batches a response may hold: the lists of distinct cards.
CardLists ==
    {[t |-> "list", v |-> l] :
        l \in {m \in StringsUpTo(Cards, Cardinality(Cards)) :
                   \A j, k \in 1..Len(m) : m[j] = m[k] => j = k}}

NonSequences ==
    { [t |-> "int", v |-> <<>>],
      [t |-> "null", v |-> <<>>],
      [t |-> "str", v |-> <<>>],
      [t |-> "str", v |-> <<Str("x")>>],
      [t |-> "dict", v |-> <<>>],
      [t |-> "dict", v |-> <<Str("k")>>] }

\* The JSON documents a response may carry: an object with or without the
\* key "flashcards", or a top-level array.
Docs ==
    {[top |-> "object", has_key |-> TRUE, value |-> x] : x \in CardLists \cup NonSequences}
        \cup {[top |-> "object", has_key |-> FALSE, value |-> EmptyList],
              [top |-> "array", has_key |-> FALSE, value |-> EmptyList]}

\* A response text is a sequence of tokens: the json fence (three backticks
\* and the word json), the plain fence (three backticks not followed by
\* json), a run of prose, or the text of a JSON document.
NoDoc == [top |-> "none", has_key |-> FALSE, value |-> EmptyList]
FenceJson == [tok |-> "fence_json", doc |-> NoDoc]
Fence == [tok |-> "fence", doc |-> NoDoc]
Text == [tok |-> "text", doc |-> NoDoc]
Json(d) == [tok |-> "json", doc |-> d]

Responses ==
    UNION {{ <<Json(d)>>,
             <<FenceJson, Json(d), Fence>>,
             <<Text, FenceJson, Json(d), Fence, Text>>,
             <<Fence, Json(d), Fence>>,
             <<Fence, Json(d)>>,
             <<Text, Json(d)>>,
             <<Fence, Text, Fence, Json(d)>> } : d \in Docs}
        \cup {<<>>, <<Text>>, <<FenceJson, Fence>>}

\* sub in str
Contains(str, toks) == \E k \in 1..Len(str) : str[k].tok \in toks

\* str.split(sep): the pieces between the occurrences of a separator.
RECURSIVE split(_, _)
split(str, seps) ==
    IF ~Contains(str, seps) THEN <<str>>
    ELSE LET k == CHOOSE k \in 1..Len(str) :
                      /\ str[k].tok \in seps
                      /\ \A j \in 1..(k - 1) : str[j].tok \notin seps
         IN <<SubSeq(str, 1, k - 1)>> \o split(SubSeq(str, k + 1, Len(str)), seps)

\* Lines 106-109: the text handed to json.loads.  The plain fence is a
\* substring of the json fence, so the test for it and the split on it see
\* both kinds of fence.
strip_fence(response_content) ==
    IF Contains(response_content, {"fence_json"})
    THEN split(split(response_content, {"fence_json"})[2], {"fence", "fence_json"})[1]
    ELSE IF Contains(response_content, {"fence", "fence_json"})
    THEN split(response_content, {"fence", "fence_json"})[2]
    ELSE response_content

\* json.loads(text) succeeds on the text of exactly one JSON document.
json_loads_ok(text) == Len(text) = 1 /\ text[1].tok = "json"

\* json.loads(text)["flashcards"] succeeds on an object holding the key.
lookup_ok(text) ==
    /\ json_loads_ok(text)
    /\ text[1].doc.top = "object"
    /\ text[1].doc.has_key

\* Lines 92-115: what generate_flashcards returns.  api_ok is whether
\* openai.ChatCompletion.create returned; every exception inside the try
\* block gives [].
generate_flashcards(api_ok, response) ==
    IF api_ok /\ lookup_ok(strip_fence(response))
    THEN strip_fence(response)[1].doc.value
    ELSE EmptyList

\* Lines 55-90: the lengths of the two prompts.
Subjects == {"General", "Biology", "History", "Computer Science", "Medicine",
             "Languages"}

GuideLen(subj) ==
    CASE subj = "Biology" -> 56
      [] subj = "History" -> 56
      [] subj = "Computer Science" -> 73
      [] subj = "Medicine" -> 61
      [] subj = "Languages" -> 85
      [] OTHER -> 57

system_prompt_len(subj) == SystemPromptFixedLen + GuideLen(subj)

user_prompt_len(n) == UserPromptFixedLen + n

\* Line 100: the max_tokens of the request, for a chunk of n characters.
request_max_tokens(n, subj) ==
    MAX_TOKENS - system_prompt_len(subj) - user_prompt_len(n)

-----------------------------------------------------------------------------
(* process_content *)

\* list.extend(x) raises TypeError unless x can be iterated.
Iterable(x) == x.t \in {"list", "str", "dict"}

extend_front(list, x) == x.v \o list

extend(list, x) == list \o x.v

\* What the service did for a chunk, in the words of the specification.
Classify(api_ok, response) ==
    IF ~api_ok THEN "invocation_error"
    ELSE IF ~json_loads_ok(strip_fence(response)) THEN "invalid_json"
    ELSE IF ~lookup_ok(strip_fence(response)) THEN "no_key"
    ELSE IF strip_fence(response)[1].doc.value.t # "list" THEN "not_sequence"
    ELSE "cards"

\* Lines 119-123.
ProcessStart ==
    /\ op = "process" /\ pc = "idle"
    /\ chunks' = chunk_content(s, size)
    /\ all_flashcards' = <<>>
    /\ progress_bar' = <<<<0, 1>>>>
    /\ i' = 0
    /\ pc' = "loop"
    /\ UNCHANGED <<op, s, size, content, subject, max_tokens, log, flashcards,
                   gi, topics>>

\* Lines 124-127: one pass of the for loop, the call of generate_flashcards
\* included.  The TypeError of extend is raised outside any try block and
\* leaves process_content.
ProcessChunk ==
    /\ op = "process" /\ pc = "loop"
    /\ i < Len(chunks)
    /\ \E api_ok \in BOOLEAN :
       \E response \in (IF api_ok THEN Responses ELSE {<<>>}) :
         LET returned == generate_flashcards(api_ok, response)
             entry == [class |-> Classify(api_ok, response),
                       returned |-> returned.v,
                       raised |-> ~Iterable(returned)]
         IN /\ max_tokens' =
                   Append(max_tokens, request_max_tokens(Len(chunks[i + 1]), subject))
            /\ log' = Append(log, entry)
            /\ IF Iterable(returned)
               THEN /\ all_flashcards' = extend(all_flashcards, returned)
                    /\ progress_bar' = Append(progress_bar, <<i + 1, Len(chunks)>>)
                    /\ i' = i + 1
                    /\ pc' = "loop"
               ELSE /\ pc' = "raised"
                    /\ UNCHANGED <<all_flashcards, progress_bar, i>>
    /\ UNCHANGED <<op, s, size, content, chunks, subject, flashcards, gi, topics>>

\* Line 129.
ProcessReturn ==
    /\ op = "process" /\ pc = "loop"
    /\ i = Len(chunks)
    /\ pc' = "done"
    /\ UNCHANGED <<op, s, size, content, chunks, subject, i, all_flashcards,
                   progress_bar, max_tokens, log, flashcards, gi, topics>>

ProcessNext == ProcessStart \/ ProcessChunk \/ ProcessReturn

ProcessInit ==
    /\ op = "process" /\ pc = "idle"
    /\ s \in StringsUpTo({"a", "NL"}, MaxProcLen)
    /\ size \in 1..MaxChunkSize
    /\ subject \in {"General", "Languages"}
    /\ content = <<>> /\ chunks = <<>>
    /\ i = 0 /\ all_flashcards = <<>>
    /\ progress_bar = <<>> /\ max_tokens = <<>> /\ log = <<>>
    /\ flashcards = <<>> /\ gi = 0 /\ topics = <<>>

SpecProcess == ProcessInit /\ [][ProcessNext]_vars

-----------------------------------------------------------------------------
(* Properties of process_content. *)

\* The cards of the chunks whose response held a list, in chunk order.
RECURSIVE CardsInOrder(_)
CardsInOrder(entries) ==
    IF entries = <<>> THEN <<>>
    ELSE (IF Head(entries).class = "cards" THEN Head(entries).returned ELSE <<>>)
             \o CardsInOrder(Tail(entries))

C2_BadResponseSkipped ==
    op = "process" =>
        /\ pc # "raised"
        /\ \A k \in 1..Len(log) :
               log[k].class \in {"invalid_json", "no_key", "not_sequence"}
                   => log[k].returned = <<>> /\ ~log[k].raised
        /\ pc \in {"loop", "done"} => all_flashcards = CardsInOrder(log)

\* a/b < c/d, for positive b and d
Less(x, y) == x[1] * y[2] < y[1] * x[2]

IsOne(x) == x[1] = x[2]

\* C8: the values handed to the progress bar after the chunks are
\* completed/total, each greater than the one before, and a run that has
\* ended has emitted 1.0 exactly once, as its last emission.  (The first
\* entry of progress_bar is the 0 the bar is created with.)
C8_ProgressReachesOne ==
    op = "process" =>
        /\ \A k \in 2..Len(progress_bar) : progress_bar[k] = <<k - 1, Len(chunks)>>
        /\ \A k \in 2..(Len(progress_bar) - 1) :
               Less(progress_bar[k], progress_bar[k + 1])
        /\ pc \in {"done", "raised"} =>
               /\ Len(progress_bar) >= 2
               /\ IsOne(progress_bar[Len(progress_bar)])
               /\ \A k \in 2..(Len(progress_bar) - 1) : ~IsOne(progress_bar[k])

-----------------------------------------------------------------------------
(* The token budget of generate_flashcards, for chunks of every length up   *)
(* to CHUNK_SIZE.                                                           *)

\* Lines 93-101: the request is built and sent.
GenerateRequest ==
    /\ op = "budget" /\ pc = "idle"
    /\ max_tokens' = Append(max_tokens, request_max_tokens(Len(content), subject))
    /\ pc' = "sent"
    /\ UNCHANGED <<op, s, size, content, chunks, subject, i, all_flashcards,
                   progress_bar, log, flashcards, gi, topics>>

\* Lines 103-115: the call returns or raises, and generate_flashcards
\* returns.
GenerateReturn ==
    /\ op = "budget" /\ pc = "sent"
    /\ \E api_ok \in BOOLEAN :
       \E response \in (IF api_ok THEN Responses ELSE {<<>>}) :
           all_flashcards' = generate_flashcards(api_ok, response).v
    /\ pc' = "done"
    /\ UNCHANGED <<op, s, size, content, chunks, subject, i, progress_bar,
                   max_tokens, log, flashcards, gi, topics>>

BudgetNext == GenerateRequest \/ GenerateReturn

BudgetInit ==
    /\ op = "budget" /\ pc = "idle"
    /\ size = CHUNK_SIZE
    /\ content \in {[k \in 1..n |-> "a"] : n \in 0..CHUNK_SIZE}
    /\ subject \in Subjects \cup {"Chemistry"}
    /\ s = <<>> /\ chunks = <<>>
    /\ i = 0 /\ all_flashcards = <<>>
    /\ progress_bar = <<>> /\ max_tokens = <<>> /\ log = <<>>
    /\ flashcards = <<>> /\ gi = 0 /\ topics = <<>>

SpecBudget == BudgetInit /\ [][BudgetNext]_vars

\* C9: the max_tokens of every request is at least 1.
C9_BudgetPositive ==
    op = "budget" => \A k \in 1..Len(max_tokens) : max_tokens[k] >= 1

-----------------------------------------------------------------------------
(* group_by_topic *)

\* A card as a dict: has_topic is whether the key "topic" is present.
GroupCards ==
    {[question |-> q, has_topic |-> TRUE, topic |-> tp] :
        q \in {"q1", "q2"}, tp \in {"", "Cell Biology", "Uncategorized"}}
        \cup {[question |-> q, has_topic |-> FALSE, topic |-> ""] : q \in {"q1", "q2"}}

\* Line 135: card.get("topic", "Uncategorized")
get_topic(card) == IF card.has_topic THEN card.topic ELSE "Uncategorized"

\* topic in topics
HasKey(dict, key) == \E k \in 1..Len(dict) : dict[k].key = key

\* Lines 136-138: the bucket of the topic is created when missing, and the
\* card is appended to it.
put_card_fresh(dict, key, card) ==
    IF HasKey(dict, key)
    THEN [k \in 1..Len(dict) |->
             IF dict[k].key = key
             THEN [key |-> key, bucket |-> <<card>>]
             ELSE dict[k]]
    ELSE Append(dict, [key |-> key, bucket |-> <<card>>])

put_card(dict, key, card) ==
    IF HasKey(dict, key)
    THEN [k \in 1..Len(dict) |->
             IF dict[k].key = key
             THEN [key |-> key, bucket |-> Append(dict[k].bucket, card)]
             ELSE dict[k]]
    ELSE Append(dict, [key |-> key, bucket |-> <<card>>])

\* Line 133.
GroupStart ==
    /\ op = "group" /\ pc = "idle"
    /\ topics' = <<>>
    /\ gi' = 0
    /\ pc' = "loop"
    /\ UNCHANGED <<op, s, size, content, chunks, subject, i, all_flashcards,
                   progress_bar, max_tokens, log, flashcards>>

\* Lines 134-138: one pass of the for loop.
GroupCard ==
    /\ op = "group" /\ pc = "loop"
    /\ gi < Len(flashcards)
    /\ topics' = put_card(topics, get_topic(flashcards[gi + 1]), flashcards[gi + 1])
    /\ gi' = gi + 1
    /\ UNCHANGED <<op, pc, s, size, content, chunks, subject, i, all_flashcards,
                   progress_bar, max_tokens, log, flashcards>>

\* Line 139.
GroupReturn ==
    /\ op = "group" /\ pc = "loop"
    /\ gi = Len(flashcards)
    /\ pc' = "done"
    /\ UNCHANGED <<op, s, size, content, chunks, subject, i, all_flashcards,
                   progress_bar, max_tokens, log, flashcards, gi, topics>>

GroupNext == GroupStart \/ GroupCard \/ GroupReturn

GroupInit ==
    /\ op = "group" /\ pc = "idle"
    /\ flashcards \in StringsUpTo(GroupCards, MaxCards)
    /\ gi = 0 /\ topics = <<>>
    /\ s = <<>> /\ size = CHUNK_SIZE /\ content = <<>> /\ chunks = <<>>
    /\ subject = "General" /\ i = 0 /\ all_flashcards = <<>>
    /\ progress_bar = <<>> /\ max_tokens = <<>> /\ log = <<>>

SpecGroup == GroupInit /\ [][GroupNext]_vars

-----------------------------------------------------------------------------
(* Properties of group_by_topic. *)

Count(x, seq) == Cardinality({k \in 1..Len(seq) : seq[k] = x})

RECURSIVE AllBuckets(_)
AllBuckets(dict) ==
    IF dict = <<>> THEN <<>> ELSE Head(dict).bucket \o AllBuckets(Tail(dict))

\* sub can be obtained from seq by deleting elements.
RECURSIVE IsSubsequence(_, _)
IsSubsequence(sub, seq) ==
    IF sub = <<>> THEN TRUE
    ELSE IF seq = <<>> THEN FALSE
    ELSE IF Head(sub) = Head(seq) THEN IsSubsequence(Tail(sub), Tail(seq))
    ELSE IsSubsequence(sub, Tail(seq))

Partitioned ==
    op = "group" =>
        \* one bucket per key
        /\ \A j, k \in 1..Len(topics) : topics[j].key = topics[k].key => j = k
        \* no card in two buckets
        /\ \A j, k \in 1..Len(topics) :
               j # k => \A c \in GroupCards :
                            Count(c, topics[j].bucket) = 0 \/ Count(c, topics[k].bucket) = 0
        \* the buckets together hold the cards consumed so far, as a multiset
        /\ \A c \in GroupCards :
               Count(c, AllBuckets(topics)) = Count(c, SubSeq(flashcards, 1, gi))
        \* each bucket keeps the order of the input
        /\ \A k \in 1..Len(topics) : IsSubsequence(topics[k].bucket, flashcards)
        /\ pc = "done" => gi = Len(flashcards)

\* C6: the buckets partition the input: every card is in exactly one bucket,
\* the buckets together are the input as a multiset, each bucket keeps the
\* relative order of the input, and the input list is not changed.
C6_Partition == []Partitioned /\ [][flashcards' = flashcards]_vars

C6_Witness ==
    /\ op = "group" /\ pc = "done"
    /\ Len(flashcards) = 3
    /\ Len(topics) = 2
    /\ flashcards[1] = flashcards[3]
    /\ Len(topics[1].bucket) = 2

\* C7: a card whose topic is "" or absent is in the bucket "Uncategorized",
\* and no bucket has the key "".
C7_EmptyTopicUncategorized ==
    op = "group" =>
        /\ \A k \in 1..Len(topics) : topics[k].key # ""
        /\ \A n \in 1..gi :
               (~flashcards[n].has_topic \/ flashcards[n].topic = "")
                   => \E k \in 1..Len(topics) :
                          /\ topics[k].key = "Uncategorized"
                          /\ Count(flashcards[n], topics[k].bucket) > 0

====
